---------------------------- MODULE Spec2Model ----------------------------
(***************************************************************************)
(* Model of refellips/reflect_modelSE.py: the coherent transfer-matrix     *)
(* calculation coh_tmm and its caller Delta_Psi_TMM.                       *)
(*                                                                         *)
(* Numbers.  The program computes in complex floating point.  The model    *)
(* computes in exact arithmetic: a real is a rational <<n, d>>, a complex  *)
(* number a record [re, im] of rationals.  <<0, 0>> stands for a           *)
(* non-finite value (the inf/nan numpy produces on a division by zero),    *)
(* which every operation propagates.  The transcendental functions are     *)
(* kept exact as follows.                                                  *)
(*   - An angle is held by its sine: arcsin is injective, and              *)
(*     cos(arcsin z) = sqrt(1 - z^2) on the principal branches.            *)
(*   - A wavevector or phase is held as a multiple of pi.                  *)
(*   - exp(i*delta) is an exact unit (1, i, -1, -i) times exp(-Im delta);  *)
(*     a non-zero attenuation exp(-Im delta) is the formal positive real   *)
(*     A, and amplitudes are quotients of polynomials in A.                *)
(*   - arctan and angle results are held by the quantity that determines   *)
(*     them (the ratio whose modulus is the tangent, resp. the half-plane  *)
(*     and the direction of the complex number).                           *)
(* The inputs are drawn from stacks and angles for which every square root *)
(* and every unit phase is exact (Representable).                          *)
(***************************************************************************)
EXTENDS Integers, Sequences, FiniteSets, TLC

(***************************************************************************)
(* Exact rationals                                                         *)
(***************************************************************************)
\* an array built element by element
Arr(f) == f \o <<>>

Abs(x) == IF x < 0 THEN -x ELSE x

Min2(a, b) == IF a < b THEN a ELSE b

Max2(a, b) == IF a < b THEN b ELSE a

RECURSIVE GCD(_, _)
GCD(a, b) == IF b = 0 THEN a ELSE GCD(b, a % b)

RNaN == <<0, 0>>

\* n/d with d > 0 and the common divisor g removed
RLowest(n, d, g) == IF d < 0 THEN <<(-n) \div g, (-d) \div g>> ELSE <<n \div g, d \div g>>

RNorm(n, d) == IF d = 0 THEN RNaN ELSE RLowest(n, d, GCD(Abs(n), Abs(d)))

RFin(x) == x[2] # 0

RInt(n) == <<n, 1>>

RZero == <<0, 1>>

ROne == <<1, 1>>

\* x + y over the least common denominator, g the GCD of the denominators
RAddOver(x, y, g) == RNorm(x[1] * (y[2] \div g) + y[1] * (x[2] \div g), (x[2] \div g) * y[2])

RAdd(x, y) == IF ~RFin(x) \/ ~RFin(y) THEN RNaN ELSE RAddOver(x, y, GCD(x[2], y[2]))

RNeg(x) == IF RFin(x) THEN <<-x[1], x[2]>> ELSE RNaN

RSub(x, y) == RAdd(x, RNeg(y))

\* x * y, the cross divisors g1 and g2 removed before multiplying
RMulOver(x, y, g1, g2) == RNorm((x[1] \div g1) * (y[1] \div g2), (x[2] \div g2) * (y[2] \div g1))

RMul(x, y) ==
    IF ~RFin(x) \/ ~RFin(y) THEN RNaN
    ELSE RMulOver(x, y, GCD(Abs(x[1]), y[2]), GCD(Abs(y[1]), x[2]))

RDiv(x, y) ==
    IF ~RFin(x) \/ ~RFin(y) THEN RNaN
    ELSE IF y[1] = 0 THEN RNaN
    ELSE RMul(x, RNorm(y[2], y[1]))

\* x < y over the least common denominator
RLtOver(x, y, g) == x[1] * (y[2] \div g) < y[1] * (x[2] \div g)

\* x < y; a comparison with a non-finite operand is false, as for a NaN
RLt(x, y) == RFin(x) /\ RFin(y) /\ RLtOver(x, y, GCD(x[2], y[2]))

RSign(x) == IF x[1] > 0 THEN 1 ELSE IF x[1] < 0 THEN -1 ELSE 0

RAbs(x) == <<Abs(x[1]), x[2]>>

\* the exact square root of a perfect square
ISqrt(n) == CHOOSE r \in 0..n : r * r = n

RSqrt(x) == <<ISqrt(x[1]), ISqrt(x[2])>>

(***************************************************************************)
(* Exact complex numbers                                                   *)
(***************************************************************************)
Cx(re, im) == [re |-> re, im |-> im]

CNaN == Cx(RNaN, RNaN)

CFin(z) == RFin(z.re) /\ RFin(z.im)

CFix(z) == IF CFin(z) THEN z ELSE CNaN

CReal(r) == CFix(Cx(r, RZero))

CZero == Cx(RZero, RZero)

COne == Cx(ROne, RZero)

CI == Cx(RZero, ROne)

CAdd(z, w) == CFix(Cx(RAdd(z.re, w.re), RAdd(z.im, w.im)))

CNeg(z) == CFix(Cx(RNeg(z.re), RNeg(z.im)))

CSub(z, w) == CAdd(z, CNeg(w))

CConj(z) == CFix(Cx(z.re, RNeg(z.im)))

\* z = (CRe(z) + i*CIm(z)) / CDen(z) with integers CRe, CIm, CDen
CDen(z) == (z.re[2] \div GCD(z.re[2], z.im[2])) * z.im[2]

CRe(z) == z.re[1] * (CDen(z) \div z.re[2])

CIm(z) == z.im[1] * (CDen(z) \div z.im[2])

\* the content of the numerator: GCD(CRe, CIm)
CCont(z) == GCD(Abs(CRe(z)), Abs(CIm(z)))

\* z as <<CRe(z), CIm(z), CDen(z)>>, given CDen(z)
CPartsOver(z, dz) == <<z.re[1] * (dz \div z.re[2]), z.im[1] * (dz \div z.im[2]), dz>>

CParts(z) == CPartsOver(z, CDen(z))

\* (a + ib)(c + id) / dd
CMulParts(a, b, c, d, dd) == Cx(RNorm(a * c - b * d, dd), RNorm(a * d + b * c, dd))

\* the product of the parts Z and W, the cross divisors g1 and g2 removed
\* before multiplying
CMulOver(Z, W, g1, g2) ==
    CMulParts(Z[1] \div g1, Z[2] \div g1, W[1] \div g2, W[2] \div g2,
              (Z[3] \div g2) * (W[3] \div g1))

CMulCross(Z, W) ==
    CMulOver(Z, W, GCD(GCD(Abs(Z[1]), Abs(Z[2])), W[3]), GCD(GCD(Abs(W[1]), Abs(W[2])), Z[3]))

CMul(z, w) ==
    IF ~CFin(z) \/ ~CFin(w) THEN CNaN
    ELSE IF z = CZero \/ w = CZero THEN CZero
    ELSE CMulCross(CParts(z), CParts(w))

\* (a + ib)(c - id) * s
CDivParts(a, b, c, d, s) == Cx(RMul(RInt(a * c + b * d), s), RMul(RInt(b * c - a * d), s))

\* Z / W with W = g (c + id) / W[3] and n = c^2 + d^2:
\* z / w = (Z[1] + i Z[2]) (c - i d) W[3] / (Z[3] g n)
CDivOver(Z, W, c, d, gn, h1, h2) ==
    CDivParts(Z[1] \div h1, Z[2] \div h1, c, d,
              RMul(RNorm(W[3] \div h2, Z[3] \div h2), RNorm(1, gn \div h1)))

CDivReduced(Z, W, g, c, d) ==
    CDivOver(Z, W, c, d, g * (c * c + d * d),
             GCD(GCD(Abs(Z[1]), Abs(Z[2])), g * (c * c + d * d)), GCD(W[3], Z[3]))

CDivCont(Z, W, g) == CDivReduced(Z, W, g, W[1] \div g, W[2] \div g)

CDivCross(Z, W) == CDivCont(Z, W, GCD(Abs(W[1]), Abs(W[2])))

CDiv(z, w) ==
    IF ~CFin(z) \/ ~CFin(w) \/ w = CZero THEN CNaN
    ELSE IF z = CZero THEN CZero
    ELSE CDivCross(CParts(z), CParts(w))

\* the square root of a + ib with modulus m: real part sqrt((m + a)/2),
\* imaginary part of the sign of b
CSqrtOver(z, m) ==
    Cx(RSqrt(RDiv(RAdd(m, z.re), RInt(2))),
       IF RSign(z.im) < 0 THEN RNeg(RSqrt(RDiv(RSub(m, z.re), RInt(2))))
       ELSE RSqrt(RDiv(RSub(m, z.re), RInt(2))))

CModulus(Z) == RNorm(ISqrt(Z[1] * Z[1] + Z[2] * Z[2]), Z[3])

\* the principal square root (real part >= 0; +i*sqrt(-x) for a negative real)
CSqrt(z) ==
    IF ~CFin(z) THEN CNaN
    ELSE IF z.im = RZero
    THEN IF RSign(z.re) >= 0 THEN Cx(RSqrt(z.re), RZero)
         ELSE Cx(RZero, RSqrt(RNeg(z.re)))
    ELSE CSqrtOver(z, CModulus(CParts(z)))

(***************************************************************************)
(* Polynomials in the attenuation A (lowest power first, no trailing zero) *)
(* and their quotients                                                     *)
(***************************************************************************)
Coef(p, k) == IF k \in 1..Len(p) THEN p[k] ELSE CZero

RECURSIVE PTrim(_)
PTrim(p) ==
    IF p = <<>> THEN <<>>
    ELSE IF p[Len(p)] = CZero THEN PTrim(SubSeq(p, 1, Len(p) - 1))
    ELSE p

PAdd(p, q) == PTrim(Arr([k \in 1..Max2(Len(p), Len(q)) |-> CAdd(Coef(p, k), Coef(q, k))]))

PScale(c, p) == Arr([k \in 1..Len(p) |-> CMul(c, p[k])])

PNeg(p) == Arr([k \in 1..Len(p) |-> CNeg(p[k])])

PConj(p) == Arr([k \in 1..Len(p) |-> CConj(p[k])])

RECURSIVE PConv(_, _, _, _)
PConv(p, q, k, i) ==
    IF i > Len(p) THEN CZero
    ELSE CAdd(CMul(p[i], Coef(q, k + 1 - i)), PConv(p, q, k, i + 1))

PMul(p, q) ==
    IF p = <<>> \/ q = <<>> THEN <<>>
    ELSE Arr([k \in 1..(Len(p) + Len(q) - 1) |-> PConv(p, q, k, 1)])

\* the index of the lowest non-zero coefficient of a non-zero polynomial
PLow(p) == CHOOSE k \in 1..Len(p) : p[k] # CZero /\ \A j \in 1..(k - 1) : p[j] = CZero

PDrop(p, s) == SubSeq(p, s + 1, Len(p))

\* the attenuation exponent a of A = exp(-a), a = pi*a.pi + a.abs; a = 0 for
\* a constant
AttNone == [pi |-> RZero, abs |-> RZero]

VNaN == [p |-> <<>>, q |-> <<>>, a |-> AttNone]

VFin(v) == v.q # <<>>

VZero == [p |-> <<>>, q |-> <<COne>>, a |-> AttNone]

\* p/q with the lowest coefficient of q equal to 1 and leading quotient k: the
\* constant k if p = k*q, else p/q
VProportional(p, q, k, a) ==
    IF Len(p) = Len(q) /\ p = PScale(k, q)
    THEN [p |-> <<k>>, q |-> <<COne>>, a |-> AttNone]
    ELSE [p |-> p, q |-> q, a |-> a]

VLeading(p, q, a) == VProportional(p, q, CDiv(p[Len(p)], q[Len(q)]), a)

\* p/q scaled by c, the inverse of the lowest coefficient of q
VScaled(p, q, c, a) == VLeading(PScale(c, p), PScale(c, q), a)

VMonic(p, q, a) == VScaled(p, q, CDiv(COne, q[PLow(q)]), a)

\* p/q with the common power A^s removed
VLowest(p, q, s, a) == VMonic(PDrop(p, s), PDrop(q, s), a)

\* p/q in normal form: no common power of A, the lowest coefficient of q is 1,
\* and a quotient of proportional polynomials is the constant it equals
VNorm(p, q, a) ==
    IF q = <<>> THEN VNaN
    ELSE IF p = <<>> THEN VZero
    ELSE VLowest(p, q, Min2(PLow(p), PLow(q)) - 1, a)

VConst(c) == IF ~CFin(c) THEN VNaN ELSE VNorm(PTrim(<<c>>), <<COne>>, AttNone)

VOne == VConst(COne)

\* the attenuation two operands share (one symbol A per query point)
VTag(x, y) ==
    CHOOSE t \in {x.a, y.a} : x.a \in {AttNone, t} /\ y.a \in {AttNone, t}

VAdd(x, y) ==
    IF ~VFin(x) \/ ~VFin(y) THEN VNaN
    ELSE IF x.q = y.q THEN VNorm(PAdd(x.p, y.p), x.q, VTag(x, y))
    ELSE VNorm(PAdd(PMul(x.p, y.q), PMul(y.p, x.q)), PMul(x.q, y.q), VTag(x, y))

VNeg(x) == IF ~VFin(x) THEN VNaN ELSE [p |-> PNeg(x.p), q |-> x.q, a |-> x.a]

VMul(x, y) ==
    IF ~VFin(x) \/ ~VFin(y) THEN VNaN
    ELSE VNorm(PMul(x.p, y.p), PMul(x.q, y.q), VTag(x, y))

VDiv(x, y) ==
    IF ~VFin(x) \/ ~VFin(y) THEN VNaN
    ELSE IF x.q = y.q THEN VNorm(x.p, y.p, VTag(x, y))
    ELSE VNorm(PMul(x.p, y.q), PMul(x.q, y.p), VTag(x, y))

\* 1 / x as the quotient q/p, not brought to normal form; 1/0 is not finite
VRecip(x) == IF ~VFin(x) \/ x.p = <<>> THEN VNaN ELSE [p |-> x.q, q |-> x.p, a |-> x.a]

(***************************************************************************)
(* Angles, wavevectors and phases                                          *)
(***************************************************************************)
EpsBits == 52

TolFactor == 100

ClipLimit == 35

TenAngstrom == 10

\* pi lies strictly between these two rationals
PiLo == <<333, 106>>

PiHi == <<355, 113>>

RInf == <<1, 0>>

\* an angle, held by its sine
Ang(unit, s) == [unit |-> unit, sin |-> s]

\* AOI * (np.pi / 180)
Radians(a) == Ang("rad", a.sin)

Sin(th) == IF th.unit = "rad" THEN th.sin ELSE CNaN

Cos(th) == IF th.unit = "rad" THEN CSqrt(CSub(COne, CMul(th.sin, th.sin))) ELSE CNaN

Arcsin(z) == Ang("rad", z)

\* p * 2^k < c for naturals p, c
RECURSIVE LtPow2(_, _, _)
LtPow2(p, c, k) ==
    IF k = 0 \/ p = 0 THEN p < c
    ELSE LtPow2(p, (c + 1) \div 2, k - 1)

\* np.abs(x) < 100 * EPSILON, with EPSILON = 2^-52
BelowTol(x) == RFin(x) /\ LtPow2(Abs(x[1]), TolFactor * x[2], EpsBits)

\* q * pi > lim, for a limit lim > 0
PiTimesGt(q, lim) ==
    IF ~RFin(q) \/ RSign(q) <= 0 THEN FALSE
    ELSE CHOOSE b \in BOOLEAN :
            /\ b => RLt(RInt(lim), RMul(q, PiLo))
            /\ ~b => ~RLt(RInt(lim), RMul(q, PiHi))

\* a phase: pi * rePi + i * (pi * imPi + imAbs)
Phase(c) == [rePi |-> c.re, imPi |-> c.im, imAbs |-> IF CFin(c) THEN RZero ELSE RNaN]

\* np.imag(delta) > 35
ImagGt(D, lim) ==
    IF D.imPi = RZero THEN RLt(RInt(lim), D.imAbs) ELSE PiTimesGt(D.imPi, lim)

\* exp(i * pi * q) for a half-integer q
UnitPhase(q) ==
    LET k == ((2 * q[1]) \div q[2]) % 4
    IN  CHOOSE u \in {COne, CI, CNeg(COne), CNeg(CI)} :
            /\ q[2] \in {1, 2}
            /\ u = CASE k = 0 -> COne [] k = 1 -> CI [] k = 2 -> CNeg(COne) [] OTHER -> CNeg(CI)

\* np.exp(1j * delta)
ExpI(D) ==
    IF ~RFin(D.rePi) \/ ~RFin(D.imPi) \/ ~RFin(D.imAbs) THEN VNaN
    ELSE IF D.imPi = RZero /\ D.imAbs = RZero THEN VConst(UnitPhase(D.rePi))
    ELSE [p |-> <<CZero, UnitPhase(D.rePi)>>, q |-> <<COne>>,
          a |-> [pi |-> D.imPi, abs |-> D.imAbs]]

(***************************************************************************)
(* Fresnel coefficients of one interface                                   *)
(***************************************************************************)
interface_r_s(n_i, n_f, th_i, th_f) ==
    CDiv(CSub(CMul(n_i, Cos(th_i)), CMul(n_f, Cos(th_f))),
         CAdd(CMul(n_i, Cos(th_i)), CMul(n_f, Cos(th_f))))

\* r_p written with the indices where r_s has them
interface_r_p_as_s(n_i, n_f, th_i, th_f) ==
    CDiv(CSub(CMul(n_i, Cos(th_i)), CMul(n_f, Cos(th_f))),
         CAdd(CMul(n_i, Cos(th_i)), CMul(n_f, Cos(th_f))))

interface_r_p(n_i, n_f, th_i, th_f) ==
    CDiv(CSub(CMul(n_f, Cos(th_i)), CMul(n_i, Cos(th_f))),
         CAdd(CMul(n_f, Cos(th_i)), CMul(n_i, Cos(th_f))))

interface_t_s(n_i, n_f, th_i, th_f) ==
    CDiv(CMul(CMul(CReal(RInt(2)), n_i), Cos(th_i)),
         CAdd(CMul(n_i, Cos(th_i)), CMul(n_f, Cos(th_f))))

interface_t_p(n_i, n_f, th_i, th_f) ==
    CDiv(CMul(CMul(CReal(RInt(2)), n_i), Cos(th_i)),
         CAdd(CMul(n_f, Cos(th_i)), CMul(n_i, Cos(th_f))))

interface_r(pol, n_i, n_f, th_i, th_f) ==
    IF pol = "s" THEN interface_r_s(n_i, n_f, th_i, th_f)
    ELSE interface_r_p(n_i, n_f, th_i, th_f)

interface_t(pol, n_i, n_f, th_i, th_f) ==
    IF pol = "s" THEN interface_t_s(n_i, n_f, th_i, th_f)
    ELSE interface_t_p(n_i, n_f, th_i, th_f)

(***************************************************************************)
(* coh_tmm, stage by stage.  Arrays are sequences: a (NLAYERS, NUMPNTS)    *)
(* array is a sequence over the layers of sequences over the query points. *)
(***************************************************************************)
Pts(th_0) == 1..Len(th_0)

\* the input test with .any() in place of .all()
InputTestAny(n_list, th_0) ==
    \E j \in Pts(th_0) : BelowTol(CMul(n_list[1], Sin(th_0[j])).im)

\* (np.abs(np.imag(n_list[0] * np.sin(th_0))) < 100 * EPSILON).all()
InputTest(n_list, th_0) ==
    \A j \in Pts(th_0) : BelowTol(CMul(n_list[1], Sin(th_0[j])).im)

\* th_list without the broadcast over the points: th_0[0] for every point
ThListFirstPoint(n_list, th_0) ==
    Arr([l \in 1..Len(n_list) |->
        Arr([j \in Pts(th_0) |-> Arcsin(CDiv(CMul(n_list[1], Sin(th_0[1])), n_list[l]))])])

\* th_list = arcsin(n_list[0] * np.sin(th_0[None, :]) / n_list[:, None])
ThList(n_list, th_0) ==
    Arr([l \in 1..Len(n_list) |->
        Arr([j \in Pts(th_0) |-> Arcsin(CDiv(CMul(n_list[1], Sin(th_0[j])), n_list[l]))])])

\* kz_list = 2 * np.pi * n_list[:, None] * np.cos(th_list) / lam_vac, over pi
KzList(n_list, th_list, lam_vac) ==
    Arr([l \in 1..Len(n_list) |->
        Arr([j \in 1..Len(lam_vac) |->
            CDiv(CMul(CMul(CReal(RInt(2)), n_list[l]), Cos(th_list[l][j])),
                 CReal(lam_vac[j]))])])

\* delta = kz_list[1:-1] * d_list[1:-1, None]
DeltaRaw(kz_list, d_list) ==
    Arr([l \in 1..(Len(kz_list) - 2) |->
        Arr([j \in 1..Len(kz_list[l + 1]) |->
            Phase(CMul(kz_list[l + 1][j], CReal(d_list[l + 1])))])])

\* one entry of np.clip(delta.imag, -np.inf, 35, out=delta.imag)
ClipImag(D) ==
    IF ImagGt(D, ClipLimit) THEN [D EXCEPT !.imPi = RZero, !.imAbs = RInt(ClipLimit)]
    ELSE D

\* the clip with its limits exchanged: np.clip(delta.imag, 35, np.inf, ...)
ClipFloor(dl) ==
    IF \E l \in 1..Len(dl) : \E j \in 1..Len(dl[l]) : ImagGt(dl[l][j], ClipLimit)
    THEN Arr([l \in 1..Len(dl) |->
            Arr([j \in 1..Len(dl[l]) |->
                IF ImagGt(dl[l][j], ClipLimit) THEN dl[l][j]
                ELSE [dl[l][j] EXCEPT !.imPi = RZero, !.imAbs = RInt(ClipLimit)]])])
    ELSE dl

\* if (np.imag(delta) > 35).any(): np.clip(...)
Clip(dl) ==
    IF \E l \in 1..Len(dl) : \E j \in 1..Len(dl[l]) : ImagGt(dl[l][j], ClipLimit)
    THEN Arr([l \in 1..Len(dl) |-> Arr([j \in 1..Len(dl[l]) |-> ClipImag(dl[l][j])])])
    ELSE dl

\* r_list = interface_r(n_list[:-1, None], n_list[1:, None], th_list[:-1], th_list[1:])
RList(pol, n_list, th_list) ==
    Arr([l \in 1..(Len(n_list) - 1) |->
        Arr([j \in 1..Len(th_list[l]) |->
            interface_r(pol, n_list[l], n_list[l + 1], th_list[l][j], th_list[l + 1][j])])])

TList(pol, n_list, th_list) ==
    Arr([l \in 1..(Len(n_list) - 1) |->
        Arr([j \in 1..Len(th_list[l]) |->
            interface_t(pol, n_list[l], n_list[l + 1], th_list[l][j], th_list[l + 1][j])])])

\* the characteristic matrix with beta and beta_inv exchanged
CharMatrixSwapped(D, r, t) ==
    LET beta     == ExpI(D)
        beta_inv == VDiv(VOne, beta)
    IN  [m00 |-> VDiv(beta, VConst(t)),
         m01 |-> VDiv(VMul(VConst(r), beta), VConst(t)),
         m10 |-> VDiv(VMul(VConst(r), beta_inv), VConst(t)),
         m11 |-> VDiv(beta_inv, VConst(t))]

\* the characteristic matrix of one layer at one query point
CharMatrix(D, r, t) ==
    LET beta     == ExpI(D)
        beta_inv == VDiv(VOne, beta)
    IN  [m00 |-> VDiv(beta_inv, VConst(t)),
         m01 |-> VDiv(VMul(VConst(r), beta_inv), VConst(t)),
         m10 |-> VDiv(VMul(VConst(r), beta), VConst(t)),
         m11 |-> VDiv(beta, VConst(t))]

\* M_list00 .. M_list11, as one array of 2x2 matrices
MList(dl, r_list, t_list) ==
    Arr([l \in 1..Len(dl) |->
        Arr([j \in 1..Len(dl[l]) |-> CharMatrix(dl[l][j], r_list[l + 1][j], t_list[l + 1][j])])])

\* the initial interface: Mtilde00 .. Mtilde11
InitMtilde(r_list, t_list) ==
    Arr([j \in 1..Len(t_list[1]) |->
        LET m00 == VConst(CDiv(COne, t_list[1][j]))
            m01 == VConst(CDiv(r_list[1][j], t_list[1][j]))
        IN  [m00 |-> m00, m01 |-> m01, m10 |-> m01, m11 |-> m00]])

\* the product taken in the other order: the characteristic matrix times Mtilde
MatMulLeft(T, M) ==
    [m00 |-> VAdd(VMul(M.m00, T.m00), VMul(M.m01, T.m10)),
     m01 |-> VAdd(VMul(M.m00, T.m01), VMul(M.m01, T.m11)),
     m10 |-> VAdd(VMul(M.m10, T.m00), VMul(M.m11, T.m10)),
     m11 |-> VAdd(VMul(M.m10, T.m01), VMul(M.m11, T.m11))]

\* matrix multiply Mtilde by a characteristic matrix
MatMul(T, M) ==
    [m00 |-> VAdd(VMul(T.m00, M.m00), VMul(T.m01, M.m10)),
     m01 |-> VAdd(VMul(T.m00, M.m01), VMul(T.m01, M.m11)),
     m10 |-> VAdd(VMul(T.m10, M.m00), VMul(T.m11, M.m10)),
     m11 |-> VAdd(VMul(T.m10, M.m01), VMul(T.m11, M.m11))]

\* one pass of the loop "for i in range(0, num_layers - 2)"
PropStep(Mt, M_l, l) == Arr([j \in 1..Len(Mt) |-> MatMul(Mt[j], M_l[l][j])])

RECURSIVE Propagate(_, _, _)
Propagate(Mt, M_l, l) ==
    IF l > Len(M_l) THEN Mt ELSE Propagate(PropStep(Mt, M_l, l), M_l, l + 1)

\* r = Mtilde10 / Mtilde00
NetR(Mt) == Arr([j \in 1..Len(Mt) |-> VDiv(Mt[j].m10, Mt[j].m00)])

\* t = 1 / Mtilde00
NetT(Mt) == Arr([j \in 1..Len(Mt) |-> VDiv(VOne, Mt[j].m00)])

NoResults == [r_s |-> <<>>, t_s |-> <<>>, r_p |-> <<>>, t_p |-> <<>>]

\* the phase thickness coh_tmm uses (none for a stack without interior layer)
DeltaUsed(kz_list, d_list) ==
    IF Len(kz_list) > 2 THEN Clip(DeltaRaw(kz_list, d_list)) ELSE <<>>

\* the amplitudes of one polarisation: <<r, t>>
PolAmplitudes(pol, n_list, th_list, dl) ==
    LET r_list == RList(pol, n_list, th_list)
        t_list == TList(pol, n_list, th_list)
        M_l    == IF Len(n_list) > 2 THEN MList(dl, r_list, t_list) ELSE <<>>
        Mt     == Propagate(InitMtilde(r_list, t_list), M_l, 1)
    IN  <<NetR(Mt), NetT(Mt)>>

\* coh_tmm as a whole: what it raises, or the results it returns
coh_tmm(n_list, d_list, th_0, lam_vac) ==
    IF Len(n_list) = 0 THEN [status |-> "IndexError", results |-> NoResults]
    ELSE IF ~InputTest(n_list, th_0)
    THEN [status |-> "AssertionError", results |-> NoResults]
    ELSE IF Len(n_list) = 1 THEN [status |-> "IndexError", results |-> NoResults]
    ELSE LET th_list == ThList(n_list, th_0)
             kz_list == KzList(n_list, th_list, lam_vac)
             dl      == DeltaUsed(kz_list, d_list)
             s       == PolAmplitudes("s", n_list, th_list, dl)
             p       == PolAmplitudes("p", n_list, th_list, dl)
         IN  [status |-> "ok",
              results |-> [r_s |-> s[1], t_s |-> s[2], r_p |-> p[1], t_p |-> p[2]]]

(***************************************************************************)
(* Delta_Psi_TMM, stage by stage                                           *)
(***************************************************************************)
\* layers[0, 2] = 0, written into the caller's array
ZeroFrontK(layers) == [layers EXCEPT ![1][3] = RZero]

\* RIs = layers[:, 1] + layers[:, 2] * 1j
RIs(layers) == Arr([l \in 1..Len(layers) |-> Cx(layers[l][2], layers[l][3])])

\* thicks without the conversion: layers[:, 0] as it is
ThicksUnscaled(layers) ==
    Arr([l \in 1..Len(layers) |-> IF l = 1 \/ l = Len(layers) THEN RInf ELSE layers[l][1]])

\* thicks = layers[:, 0] / 10; thicks[0] = np.inf; thicks[-1] = np.inf
Thicks(layers) ==
    Arr([l \in 1..Len(layers) |->
        IF l = 1 \/ l = Len(layers) THEN RInf
        ELSE RDiv(layers[l][1], RInt(TenAngstrom))])

\* the sign of c[1] + c[2]*A + c[3]*A^2 + ... at A = exp(-a) > 0: decided by
\* the coefficients having one sign, or by the lowest term dominating the
\* others when A < 1/1000
SmallA(a) == RLt(RInt(6), a.abs) \/ RLt(RInt(7), RMul(RInt(3), a.pi))

RECURSIVE SumAbs(_, _)
SumAbs(cs, k) == IF k > Len(cs) THEN RZero ELSE RAdd(RAbs(cs[k]), SumAbs(cs, k + 1))

SignAt(cs, a) ==
    LET nz == {k \in 1..Len(cs) : cs[k][1] # 0}
    IN  IF nz = {} THEN 0
        ELSE IF \A k \in nz : cs[k][1] > 0 THEN 1
        ELSE IF \A k \in nz : cs[k][1] < 0 THEN -1
        ELSE LET l == CHOOSE k \in nz : \A m \in nz : k <= m
             IN  CHOOSE sg \in {RSign(cs[l])} :
                    /\ SmallA(a)
                    /\ RLt(SumAbs(cs, l + 1), RMul(RInt(1000), RAbs(cs[l])))

RECURSIVE LcmDen(_, _)
LcmDen(cs, k) ==
    IF k > Len(cs) THEN 1
    ELSE LET m == LcmDen(cs, k + 1) IN (CDen(cs[k]) * m) \div GCD(CDen(cs[k]), m)

RECURSIVE GcdCont(_, _)
GcdCont(cs, k) == IF k > Len(cs) THEN 0 ELSE GCD(CCont(cs[k]), GcdCont(cs, k + 1))

\* the coefficients of a polynomial up to a positive rational factor: coprime
\* integer pairs <<re, im>>
Direction(cs) ==
    LET m  == LcmDen(cs, 1)
        is == Arr([k \in 1..Len(cs) |-> Cx(RInt(CRe(cs[k]) * (m \div CDen(cs[k]))),
                                       RInt(CIm(cs[k]) * (m \div CDen(cs[k]))))])
        g  == GcdCont(is, 1)
    IN  Arr([k \in 1..Len(cs) |-> <<CRe(is[k]) \div g, CIm(is[k]) \div g>>])

\* a real angle in radians: pi * pim + theta, where theta is the argument of
\* the direction dir at the attenuation a: theta in (0, pi) for h = "up", in
\* (-pi, 0) for h = "down", and theta = 0 for h = "zero"
AngNaN == [pim |-> RNaN, h |-> "nan", dir |-> <<>>, a |-> AttNone]

\* np.angle(z)
Angle(z) ==
    IF ~VFin(z) THEN AngNaN
    ELSE LET nm  == PMul(z.p, PConj(z.q))
             sIm == SignAt(Arr([k \in 1..Len(nm) |-> nm[k].im]), z.a)
             sRe == SignAt(Arr([k \in 1..Len(nm) |-> nm[k].re]), z.a)
         IN  IF sIm > 0 THEN [pim |-> RZero, h |-> "up", dir |-> Direction(nm), a |-> z.a]
             ELSE IF sIm < 0
             THEN [pim |-> RZero, h |-> "down", dir |-> Direction(nm), a |-> z.a]
             ELSE IF sRe < 0 THEN [pim |-> ROne, h |-> "zero", dir |-> <<>>, a |-> AttNone]
             ELSE [pim |-> RZero, h |-> "zero", dir |-> <<>>, a |-> AttNone]

AngAddPi(x) == IF x.h = "nan" THEN AngNaN ELSE [x EXCEPT !.pim = RAdd(@, ROne)]

\* x > np.pi
GtPi(x) ==
    /\ x.h # "nan"
    /\ \/ RLt(ROne, x.pim)
       \/ x.pim = ROne /\ x.h = "up"

\* 2 * np.pi - x
TwoPiMinus(x) ==
    IF x.h = "nan" THEN AngNaN
    ELSE [pim |-> RSub(RInt(2), x.pim),
          h   |-> CASE x.h = "up" -> "down" [] x.h = "down" -> "up" [] OTHER -> "zero",
          dir |-> Arr([k \in 1..Len(x.dir) |-> <<x.dir[k][1], -x.dir[k][2]>>]),
          a   |-> x.a]

\* psi = np.arctan(abs(rp / rs)), held by the ratio whose modulus it is the
\* arctangent of
PsiRad(rs, rp) ==
    Arr([j \in 1..Len(rs) |-> [unit |-> "rad", atanAbs |-> VDiv(rp[j], rs[j])]])

\* delta = np.angle(1 / (-rp / rs)) + np.pi
DeltaRad(rs, rp) ==
    Arr([j \in 1..Len(rs) |-> AngAddPi(Angle(VRecip(VNeg(VDiv(rp[j], rs[j])))))])

\* the reflection without its mask: delta = 2 * np.pi - delta
ReflectDeltaUnmasked(dlt) == Arr([j \in 1..Len(dlt) |-> TwoPiMinus(dlt[j])])

\* delta[delta > np.pi] = 2 * np.pi - delta[delta > np.pi]
ReflectDelta(dlt) ==
    Arr([j \in 1..Len(dlt) |-> IF GtPi(dlt[j]) THEN TwoPiMinus(dlt[j]) ELSE dlt[j]])

\* psi * (180 / np.pi)
PsiDegrees(psi) == Arr([j \in 1..Len(psi) |-> [unit |-> "deg", atanAbs |-> psi[j].atanAbs]])

\* the offset added before the conversion: (delta + delta_offset) * (180 / np.pi)
DeltaDegreesOffsetFirst(dlt, delta_offset) ==
    Arr([j \in 1..Len(dlt) |->
        [deg |-> RMul(RInt(180), RAdd(dlt[j].pim, delta_offset)),
         h   |-> dlt[j].h,
         dir |-> dlt[j].dir,
         a   |-> dlt[j].a]])

\* delta * (180 / np.pi) + delta_offset: deg + theta in degrees
DeltaDegrees(dlt, delta_offset) ==
    Arr([j \in 1..Len(dlt) |->
        [deg |-> RAdd(RMul(RInt(180), dlt[j].pim), delta_offset),
         h   |-> dlt[j].h,
         dir |-> dlt[j].dir,
         a   |-> dlt[j].a]])

\* the returned pair
ReturnValue(psi, dlt, delta_offset) ==
    [status |-> "ok", psi |-> PsiDegrees(psi), delta |-> DeltaDegrees(dlt, delta_offset)]

Raised(e) == [status |-> e, psi |-> <<>>, delta |-> <<>>]

\* Delta_Psi_TMM as a whole: what it returns or raises, and the caller's
\* array after the call
Delta_Psi_TMM(AOI, layers, wavelength, delta_offset, reflect_delta) ==
    IF Len(layers) = 0 THEN [ret |-> Raised("IndexError"), layers |-> layers]
    ELSE LET L   == ZeroFrontK(layers)
             th  == Arr([j \in 1..Len(AOI) |-> Radians(AOI[j])])
             res == coh_tmm(RIs(L), Thicks(L), th, Arr([j \in 1..Len(AOI) |-> wavelength]))
             psi == PsiRad(res.results.r_s, res.results.r_p)
             d0  == DeltaRad(res.results.r_s, res.results.r_p)
             d1  == IF reflect_delta THEN ReflectDelta(d0) ELSE d0
         IN  IF res.status # "ok" THEN [ret |-> Raised(res.status), layers |-> L]
             ELSE [ret |-> ReturnValue(psi, d1, delta_offset), layers |-> L]

(***************************************************************************)
(* The inputs: rows <<thickness, n, k, roughness>>                         *)
(***************************************************************************)
MaxFilms == 2

MaxPts == 2

Air == <<RInt(0), ROne, RZero, RZero>>

AirK == <<RInt(5), ROne, <<1, 10>>, RZero>>

FilmL == <<RInt(50), <<3, 4>>, RZero, RInt(3)>>

FilmAbs == <<RInt(400), <<9, 20>>, <<3, 20>>, RZero>>

SubR == <<RInt(0), <<13, 20>>, RZero, RZero>>

SubAbs == <<RInt(7), <<9, 20>>, <<3, 20>>, RInt(2)>>

Frontings == {Air, AirK}

Films == {FilmL, FilmAbs}

Backings == {SubR, SubAbs}

Absorbing(row) == row[3] # RZero

\* interior layers: at most one absorbing film (one attenuation A per point)
FilmSeqs ==
    {fs \in UNION {[1..k -> Films] : k \in 0..MaxFilms} :
        Cardinality({l \in 1..Len(fs) : Absorbing(fs[l])}) <= 1}

Stacks ==
    {<<>>} \cup {<<f>> : f \in Frontings}
    \cup {<<f>> \o fs \o <<b>> : f \in Frontings, fs \in FilmSeqs, b \in Backings}

Normal == Ang("deg", CZero)

\* arcsin(3/5) in degrees
Oblique == Ang("deg", CReal(<<3, 5>>))

Angles == {Normal, Oblique}

Batches == UNION {[1..k -> Angles] : k \in 1..MaxPts}

Wavelengths == {RInt(3), RZero, RInt(-3)}

Offsets == {RZero, RInt(5)}

\* the stacks and query points whose amplitudes are exact within the integers
\* of 32 bits: an absorbing film is lit at a positive wavelength, and at
\* oblique incidence every medium behind it has its index
Representable(st, batch, lam) ==
    \A l \in 2..(Len(st) - 1) :
        Absorbing(st[l]) =>
            /\ RSign(lam) > 0
            /\ \/ \A j \in 1..Len(batch) : batch[j] = Normal
               \/ \A m \in (l + 1)..Len(st) : st[m][2] = st[l][2] /\ st[m][3] = st[l][3]

\* transparent media for two-medium stacks
RealIndices == {ROne, <<3, 2>>, RInt(2), <<13, 20>>}

Media == {<<RInt(0), n, RZero, RZero>> : n \in RealIndices}

NormalBatches == {b \in Batches : \A j \in 1..Len(b) : b[j] = Normal}

\* the calls of Delta_Psi_TMM
DPTCalls ==
    {c \in [layers : Stacks, AOI : Batches, wavelength : Wavelengths,
            delta_offset : Offsets, reflect_delta : BOOLEAN] :
        Representable(c.layers, c.AOI, c.wavelength)}

\* the direct calls of coh_tmm: the lists of a stack as they are, the fronting
\* extinction included
CTCalls ==
    {c \in [layers : Stacks, AOI : Batches, wavelength : Wavelengths] :
        /\ Representable(c.layers, c.AOI, c.wavelength)
        /\ Len(c.layers) <= 3
        /\ \A l \in 2..Len(c.layers) : ~Absorbing(c.layers[l])}
    \cup [layers : {<<a, b>> : a \in Media, b \in Media}, AOI : NormalBatches,
          wavelength : Wavelengths]

(***************************************************************************)
(* The state of one call                                                   *)
(***************************************************************************)
VARIABLES
    entry,            \* the function the caller entered
    layers_in,        \* the caller's array when the call was made
    layers,           \* the caller's array
    AOI, wavelength, delta_offset, reflect_delta,
    pc,               \* the position in the code
    n_list, d_list, th_0, lam_vac,
    th_list, kz_list, delta,
    pol,              \* the polarisation of the current loop pass: 1 = s, 2 = p, 3 = loop over
    r_list, t_list, M_list, Mtilde,
    i,                \* the index of the propagation loop
    results,
    psi, Delta,
    ret               \* what the caller gets: a raised error or the returned value

args == <<entry, layers_in, AOI, wavelength, delta_offset, reflect_delta>>

ctArgs == <<n_list, d_list, th_0, lam_vac>>

ctLocals == <<th_list, kz_list, delta, pol, r_list, t_list, M_list, Mtilde, i, results>>

dptLocals == <<psi, Delta>>

vars == <<args, layers, pc, ctArgs, ctLocals, dptLocals, ret>>

NoRet == [status |-> "running", psi |-> <<>>, delta |-> <<>>]

Polarisations == <<"s", "p">>

Fresh ==
    /\ th_list = <<>> /\ kz_list = <<>> /\ delta = <<>>
    /\ pol = 1 /\ r_list = <<>> /\ t_list = <<>> /\ M_list = <<>> /\ Mtilde = <<>>
    /\ i = 0 /\ results = NoResults
    /\ psi = <<>> /\ Delta = <<>>
    /\ ret = NoRet

Init ==
    \/ \E c \in DPTCalls :
        /\ entry = "Delta_Psi_TMM"
        /\ layers_in = c.layers /\ layers = c.layers
        /\ AOI = c.AOI /\ wavelength = c.wavelength
        /\ delta_offset = c.delta_offset /\ reflect_delta = c.reflect_delta
        /\ pc = "Delta_Psi_TMM"
        /\ n_list = <<>> /\ d_list = <<>> /\ th_0 = <<>> /\ lam_vac = <<>>
        /\ Fresh
    \/ \E c \in CTCalls :
        /\ entry = "coh_tmm"
        /\ layers_in = <<>> /\ layers = <<>>
        /\ AOI = <<>> /\ wavelength = c.wavelength
        /\ delta_offset = RZero /\ reflect_delta = FALSE
        /\ pc = "coh_tmm"
        /\ n_list = RIs(c.layers) /\ d_list = Thicks(c.layers)
        /\ th_0 = Arr([j \in 1..Len(c.AOI) |-> Radians(c.AOI[j])])
        /\ lam_vac = c.wavelength
        /\ Fresh

Raise(e) == pc' = "raised" /\ ret' = Raised(e)

\* Delta_Psi_TMM up to its call of coh_tmm: the conversion of AOI, the write
\* into layers[0, 2], RIs and thicks
DPT_Prepare ==
    /\ pc = "Delta_Psi_TMM"
    /\ IF Len(layers) = 0
       THEN /\ Raise("IndexError")
            /\ UNCHANGED <<layers, ctArgs>>
       ELSE /\ layers' = ZeroFrontK(layers)
            /\ n_list' = RIs(layers')
            /\ d_list' = Thicks(layers')
            /\ th_0' = Arr([j \in 1..Len(AOI) |-> Radians(AOI[j])])
            /\ lam_vac' = wavelength
            /\ pc' = "coh_tmm"
            /\ UNCHANGED ret
    /\ UNCHANGED <<args, ctLocals, dptLocals>>

\* np.broadcast_arrays(th_0, lam_vac) and np.ravel
CT_Setup ==
    /\ pc = "coh_tmm"
    /\ lam_vac' = [j \in Pts(th_0) |-> lam_vac]
    /\ pc' = "input_test"
    /\ UNCHANGED <<args, layers, n_list, d_list, th_0, ctLocals, dptLocals, ret>>

\* the assertion on n_list[0] * sin(th_0)
CT_InputTest ==
    /\ pc = "input_test"
    /\ IF Len(n_list) = 0 THEN Raise("IndexError")
       ELSE IF ~InputTest(n_list, th_0) THEN Raise("AssertionError")
       ELSE pc' = "th_list" /\ UNCHANGED ret
    /\ UNCHANGED <<args, layers, ctArgs, ctLocals, dptLocals>>

CT_ThList ==
    /\ pc = "th_list"
    /\ th_list' = ThList(n_list, th_0)
    /\ pc' = "kz_list"
    /\ UNCHANGED <<args, layers, ctArgs, kz_list, delta, pol, r_list, t_list, M_list,
                   Mtilde, i, results, dptLocals, ret>>

CT_KzList ==
    /\ pc = "kz_list"
    /\ kz_list' = KzList(n_list, th_list, lam_vac)
    /\ pc' = IF Len(n_list) > 2 THEN "delta" ELSE "interface"
    /\ UNCHANGED <<args, layers, ctArgs, th_list, delta, pol, r_list, t_list, M_list,
                   Mtilde, i, results, dptLocals, ret>>

\* delta = kz_list[1:-1] * d_list[1:-1, None]
CT_Delta ==
    /\ pc = "delta"
    /\ delta' = DeltaRaw(kz_list, d_list)
    /\ pc' = "clip"
    /\ UNCHANGED <<args, layers, ctArgs, th_list, kz_list, pol, r_list, t_list, M_list,
                   Mtilde, i, results, dptLocals, ret>>

\* the reset of delta for a very opaque layer
CT_Clip ==
    /\ pc = "clip"
    /\ delta' = Clip(delta)
    /\ pc' = "interface"
    /\ UNCHANGED <<args, layers, ctArgs, th_list, kz_list, pol, r_list, t_list, M_list,
                   Mtilde, i, results, dptLocals, ret>>

\* r_list and t_list of the current polarisation
CT_Interface ==
    /\ pc = "interface"
    /\ r_list' = RList(Polarisations[pol], n_list, th_list)
    /\ t_list' = TList(Polarisations[pol], n_list, th_list)
    /\ pc' = IF Len(n_list) > 2 THEN "M_list" ELSE "Mtilde"
    /\ UNCHANGED <<args, layers, ctArgs, th_list, kz_list, delta, pol, M_list, Mtilde, i,
                   results, dptLocals, ret>>

\* the characteristic matrices of all the layers
CT_CharMatrices ==
    /\ pc = "M_list"
    /\ M_list' = MList(delta, r_list, t_list)
    /\ pc' = "Mtilde"
    /\ UNCHANGED <<args, layers, ctArgs, th_list, kz_list, delta, pol, r_list, t_list,
                   Mtilde, i, results, dptLocals, ret>>

\* the initial interface; t_list[0] does not exist for a single medium
CT_InitMtilde ==
    /\ pc = "Mtilde"
    /\ IF Len(t_list) = 0
       THEN Raise("IndexError") /\ UNCHANGED <<Mtilde, i>>
       ELSE /\ Mtilde' = InitMtilde(r_list, t_list)
            /\ i' = 0
            /\ pc' = "propagate"
            /\ UNCHANGED ret
    /\ UNCHANGED <<args, layers, ctArgs, th_list, kz_list, delta, pol, r_list, t_list,
                   M_list, results, dptLocals>>

\* one pass of "for i in range(0, num_layers - 2)"
CT_Propagate ==
    /\ pc = "propagate"
    /\ i < Len(n_list) - 2
    /\ Mtilde' = PropStep(Mtilde, M_list, i + 1)
    /\ i' = i + 1
    /\ UNCHANGED <<args, layers, pc, ctArgs, th_list, kz_list, delta, pol, r_list, t_list,
                   M_list, results, dptLocals, ret>>

\* the net amplitudes of the current polarisation, and the next loop pass
CT_Net ==
    /\ pc = "propagate"
    /\ i >= Len(n_list) - 2
    /\ results' = IF pol = 1
                  THEN [results EXCEPT !.r_s = NetR(Mtilde), !.t_s = NetT(Mtilde)]
                  ELSE [results EXCEPT !.r_p = NetR(Mtilde), !.t_p = NetT(Mtilde)]
    /\ pol' = pol + 1
    /\ pc' = IF pol < Len(Polarisations) THEN "interface" ELSE "return"
    /\ UNCHANGED <<args, layers, ctArgs, th_list, kz_list, delta, r_list, t_list, M_list,
                   Mtilde, i, dptLocals, ret>>

\* return results
CT_Return ==
    /\ pc = "return"
    /\ IF entry = "coh_tmm"
       THEN pc' = "done" /\ ret' = [status |-> "ok", psi |-> <<>>, delta |-> <<>>]
       ELSE pc' = "psi_delta" /\ UNCHANGED ret
    /\ UNCHANGED <<args, layers, ctArgs, ctLocals, dptLocals>>

\* psi and delta from rp / rs
DPT_PsiDelta ==
    /\ pc = "psi_delta"
    /\ psi' = PsiRad(results.r_s, results.r_p)
    /\ Delta' = DeltaRad(results.r_s, results.r_p)
    /\ pc' = IF reflect_delta THEN "reflect" ELSE "convert"
    /\ UNCHANGED <<args, layers, ctArgs, ctLocals, ret>>

\* the reflection of Delta about 180 degrees
DPT_Reflect ==
    /\ pc = "reflect"
    /\ Delta' = ReflectDelta(Delta)
    /\ pc' = "convert"
    /\ UNCHANGED <<args, layers, ctArgs, ctLocals, psi, ret>>

\* the conversion to degrees, the offset, and the return
DPT_Return ==
    /\ pc = "convert"
    /\ ret' = ReturnValue(psi, Delta, delta_offset)
    /\ pc' = "done"
    /\ UNCHANGED <<args, layers, ctArgs, ctLocals, dptLocals>>

Next ==
    \/ DPT_Prepare
    \/ CT_Setup
    \/ CT_InputTest
    \/ CT_ThList
    \/ CT_KzList
    \/ CT_Delta
    \/ CT_Clip
    \/ CT_Interface
    \/ CT_CharMatrices
    \/ CT_InitMtilde
    \/ CT_Propagate
    \/ CT_Net
    \/ CT_Return
    \/ DPT_PsiDelta
    \/ DPT_Reflect
    \/ DPT_Return

Spec == Init /\ [][Next]_vars

(***************************************************************************)
(* Properties                                                              *)
(***************************************************************************)
Returned == pc = "done" /\ ret.status = "ok"

\* a stack of at least two rows lit at a positive wavelength
ValidCall == Len(layers_in) >= 2 /\ RSign(wavelength) > 0

\* an angle in degrees moved by an offset in degrees
Shift(x, X) == [x EXCEPT !.deg = RAdd(@, X)]

\* an angle in degrees above 180
Above180(x) == RLt(RInt(180), x.deg) \/ (x.deg = RInt(180) /\ x.h = "up")

\* 360 degrees minus an angle in degrees
From360(x) ==
    [deg |-> RSub(RInt(360), x.deg),
     h   |-> CASE x.h = "up" -> "down" [] x.h = "down" -> "up" [] OTHER -> x.h,
     dir |-> Arr([k \in 1..Len(x.dir) |-> <<x.dir[k][1], -x.dir[k][2]>>]),
     a   |-> x.a]

\* what the same call returns with another offset and reflect flag
Recall(offset, flag) == Delta_Psi_TMM(AOI, layers_in, wavelength, offset, flag).ret

\* C1: for a valid call, Delta_Psi_TMM with delta_offset = X returns, at every
\* query point, the Delta it returns with delta_offset = 0 plus X, and the Psi
\* it returns with delta_offset = 0, whatever the reflect flag.
C1_OffsetAddsToDeltaOnly ==
    (entry = "Delta_Psi_TMM" /\ Returned /\ ValidCall) =>
        LET zero == Recall(RZero, reflect_delta)
        IN  /\ ret.psi = zero.psi
            /\ Len(ret.delta) = Len(zero.delta)
            /\ \A j \in 1..Len(ret.delta) : ret.delta[j] = Shift(zero.delta[j], delta_offset)

\* a call with a non-zero offset and the flag set has returned a Delta that
\* was reflected from 360 to 0 and then moved by the offset
C1_Witness ==
    /\ entry = "Delta_Psi_TMM" /\ Returned /\ ValidCall
    /\ delta_offset = RInt(5) /\ reflect_delta
    /\ \E j \in 1..Len(ret.delta) : ret.delta[j].deg = RInt(5)
    /\ \E j \in 1..Len(ret.delta) : ret.delta[j].deg = RInt(185)

\* C2: with the reflect flag set, a query point whose raw Delta is above 180
\* degrees is returned as 360 degrees minus the raw Delta (plus the offset) and
\* a point whose raw Delta is at most 180 degrees is returned unchanged (plus
\* the offset); with the flag unset no Delta is changed; Psi is the same with
\* and without the flag.
C2_ReflectAbove180 ==
    (entry = "Delta_Psi_TMM" /\ Returned /\ ValidCall) =>
        LET raw == Recall(RZero, FALSE)
        IN  /\ ret.psi = raw.psi
            /\ Len(ret.delta) = Len(raw.delta)
            /\ \A j \in 1..Len(ret.delta) :
                ret.delta[j] =
                    Shift(IF reflect_delta /\ Above180(raw.delta[j])
                          THEN From360(raw.delta[j])
                          ELSE raw.delta[j], delta_offset)

\* a call with the flag set has returned one point reflected from 360 to 0 and
\* another, at 180, unchanged
C2_Witness ==
    /\ entry = "Delta_Psi_TMM" /\ Returned /\ ValidCall /\ reflect_delta
    /\ delta_offset = RZero
    /\ \E j \in 1..Len(ret.delta) :
        Recall(RZero, FALSE).delta[j].deg = RInt(360) /\ ret.delta[j].deg = RZero
    /\ \E j \in 1..Len(ret.delta) :
        Recall(RZero, FALSE).delta[j].deg = RInt(180) /\ ret.delta[j].deg = RInt(180)

\* C3: after Delta_Psi_TMM returns or raises, every entry of the caller's
\* layers array has the value it had before the call.
C3_LayersUnchanged ==
    (entry = "Delta_Psi_TMM" /\ pc \in {"done", "raised"}) => layers = layers_in

\* C4: every call of Delta_Psi_TMM or coh_tmm with a stack of fewer than 2
\* rows, or with a zero or negative wavelength, ends in an error and returns
\* no result.
C4_InvalidCallRaises ==
    LET rows == IF entry = "coh_tmm" THEN Len(n_list) ELSE Len(layers_in)
    IN  (rows < 2 \/ RSign(wavelength) <= 0) => pc # "done"

\* the position is past the input test of coh_tmm
PastInputTest ==
    pc \in {"th_list", "kz_list", "delta", "clip", "interface", "M_list", "Mtilde",
            "propagate", "return", "psi_delta", "reflect", "convert", "done"}

\* the magnitude of the imaginary part of n_0 * sin(theta_0) at point j is
\* below 100 times the machine epsilon
Negligible(j) == BelowTol(CMul(n_list[1], Sin(th_0[j])).im)

\* C5: if at some query point the imaginary part of n_0 * sin(theta_0) is not
\* below 100 machine epsilons, coh_tmm raises before any layer angle,
\* wavevector or amplitude is computed and returns nothing; if it is below
\* the bound at every point the input test does not raise.
C5_InputTestFailsFast ==
    /\ (Len(n_list) > 0 /\ pc \notin {"Delta_Psi_TMM", "coh_tmm", "input_test"}) =>
        IF \E j \in Pts(th_0) : ~Negligible(j)
        THEN /\ pc = "raised" /\ ret = Raised("AssertionError")
             /\ th_list = <<>> /\ kz_list = <<>> /\ r_list = <<>> /\ t_list = <<>>
             /\ results = NoResults
        ELSE ret.status # "AssertionError"
    /\ PastInputTest => \A j \in Pts(th_0) : Negligible(j)

\* a batch of two points, the first passing the bound and the second not, has
\* raised the assertion
C5_Witness ==
    /\ pc = "raised" /\ ret.status = "AssertionError"
    /\ Len(th_0) = 2 /\ Negligible(1) /\ ~Negligible(2)

\* the net amplitudes of both polarisations are in results
HasResults == pc \in {"return", "psi_delta", "reflect", "convert", "done"}

\* two media with real indices
TwoRealMedia == Len(n_list) = 2 /\ n_list[1].im = RZero /\ n_list[2].im = RZero

\* (n0 - n1) / (n0 + n1)
ClassicR == CDiv(CSub(n_list[1], n_list[2]), CAdd(n_list[1], n_list[2]))

\* C6 as stated: for two media with real indices at normal incidence the net
\* reflection amplitudes satisfy r_s = r_p, and both equal (n0 - n1)/(n0 + n1).
C6_EqualAmplitudes ==
    (HasResults /\ TwoRealMedia) =>
        \A j \in Pts(th_0) :
            Sin(th_0[j]) = CZero =>
                /\ results.r_s[j] = results.r_p[j]
                /\ results.r_s[j] = VConst(ClassicR)
                /\ results.r_p[j] = VConst(ClassicR)

\* C6, amended: for two media with real indices at normal incidence r_s equals
\* (n0 - n1)/(n0 + n1) and r_p is its negative, (n1 - n0)/(n1 + n0).
C6_OppositeAmplitudes ==
    (HasResults /\ TwoRealMedia) =>
        \A j \in Pts(th_0) :
            Sin(th_0[j]) = CZero =>
                /\ results.r_s[j] = VConst(ClassicR)
                /\ results.r_p[j] = VConst(CNeg(ClassicR))

\* coh_tmm has returned r_s = 1/5 and r_p = -1/5 for the indices 3/2 and 1
C6_Witness ==
    /\ pc = "done" /\ entry = "coh_tmm" /\ TwoRealMedia
    /\ n_list[1] = CReal(<<3, 2>>) /\ n_list[2] = COne
    /\ Sin(th_0[1]) = CZero
    /\ results.r_s[1] = VConst(CReal(<<1, 5>>))
    /\ results.r_p[1] = VConst(CReal(<<-1, 5>>))

\* what a separate call with only angle j returns
Single(j) == Delta_Psi_TMM(<<AOI[j]>>, layers_in, wavelength, delta_offset, reflect_delta).ret

\* C7: a call of Delta_Psi_TMM with N angles at one wavelength returns N
\* (Psi, Delta) pairs in input order, the pair at position j being the pair a
\* separate call with only angle j returns.
C7_PointsIndependent ==
    (entry = "Delta_Psi_TMM" /\ Returned /\ ValidCall) =>
        /\ Len(ret.psi) = Len(AOI)
        /\ Len(ret.delta) = Len(AOI)
        /\ \A j \in 1..Len(AOI) :
            /\ Single(j).status = "ok"
            /\ ret.psi[j] = Single(j).psi[1]
            /\ ret.delta[j] = Single(j).delta[1]

\* a call has returned two different pairs for two angles, the phase thickness
\* of its film clamped at the second angle and not at the first
C7_Witness ==
    /\ entry = "Delta_Psi_TMM" /\ Returned /\ ValidCall
    /\ Len(AOI) = 2 /\ AOI[1] = Normal /\ AOI[2] = Oblique
    /\ Len(delta) = 1
    /\ delta[1][1].imAbs = RZero /\ delta[1][2].imAbs = RInt(ClipLimit)
    /\ ret.psi[1] # ret.psi[2] /\ ret.delta[1] # ret.delta[2]

\* the imaginary part pi * imPi + imAbs of a phase is above 35
ImAbove35(D) ==
    \/ D.imPi = RZero /\ RLt(RInt(35), D.imAbs)
    \/ D.imAbs = RZero /\ RLt(RInt(35), RMul(D.imPi, PiLo))

\* the imaginary part of a phase is at most 35
ImAtMost35(D) ==
    \/ D.imPi = RZero /\ ~RLt(RInt(35), D.imAbs)
    \/ D.imAbs = RZero /\ ~RLt(RInt(35), RMul(D.imPi, PiHi))

FinitePhase(D) == RFin(D.rePi) /\ RFin(D.imPi) /\ RFin(D.imAbs)

\* the phase thickness is the one the matrices are built from
Clipped == Len(n_list) > 2 /\ pc \notin {"Delta_Psi_TMM", "coh_tmm", "input_test", "th_list",
                                         "kz_list", "delta", "clip", "raised"}

\* C8: for every interior layer and query point the phase thickness used has
\* the real part of kz * d and the imaginary part min(Im(kz * d), 35): an
\* entry at most 35 is unchanged, an entry above 35 gets exactly 35 whatever
\* its value, and there is one row of delta per interior layer, none for the
\* two boundary media, whose wavevectors are left as computed.
C8_OpacityClamp ==
    Clipped =>
        LET raw == DeltaRaw(kz_list, d_list)
        IN  /\ Len(delta) = Len(n_list) - 2
            /\ kz_list = KzList(n_list, th_list, lam_vac)
            /\ \A l \in 1..Len(delta) :
                /\ Len(delta[l]) = Len(th_0)
                /\ \A j \in 1..Len(delta[l]) :
                    FinitePhase(raw[l][j]) =>
                        /\ delta[l][j].rePi = raw[l][j].rePi
                        /\ ImAtMost35(delta[l][j])
                        /\ ImAtMost35(raw[l][j]) => delta[l][j] = raw[l][j]
                        /\ ImAbove35(raw[l][j]) =>
                            /\ delta[l][j].imPi = RZero
                            /\ delta[l][j].imAbs = RInt(35)
                        /\ ImAtMost35(raw[l][j]) \/ ImAbove35(raw[l][j])

\* the phase thickness of a film was above 35 at one point, where it is 35
\* now, and below at another, where it is as it was
C8_Witness ==
    /\ Clipped /\ Len(delta) = 1 /\ Len(th_0) = 2
    /\ ImAbove35(DeltaRaw(kz_list, d_list)[1][2])
    /\ delta[1][2].imAbs = RInt(35)
    /\ delta[1][1] = DeltaRaw(kz_list, d_list)[1][1]
    /\ RSign(delta[1][1].imPi) > 0

\* exp(i * delta) and exp(-i * delta)
ExpPlus(D) == ExpI(D)

ExpMinus(D) == VDiv(VOne, ExpI(D))

HasMatrices == Len(n_list) > 2 /\ pc \in {"Mtilde", "propagate"}

\* C9 as stated: the characteristic matrix of an interior layer is
\* (1/t) [[exp(i delta), r exp(i delta)], [r exp(-i delta), exp(-i delta)]].
C9_PlusOnTop ==
    HasMatrices =>
        \A l \in 1..Len(M_list) : \A j \in 1..Len(M_list[l]) :
            LET r == VConst(r_list[l + 1][j])
                t == VConst(t_list[l + 1][j])
                D == delta[l][j]
            IN  /\ M_list[l][j].m00 = VDiv(ExpPlus(D), t)
                /\ M_list[l][j].m01 = VDiv(VMul(r, ExpPlus(D)), t)
                /\ M_list[l][j].m10 = VDiv(VMul(r, ExpMinus(D)), t)
                /\ M_list[l][j].m11 = VDiv(ExpMinus(D), t)

\* C9, amended: the characteristic matrix of an interior layer is
\* (1/t) [[exp(-i delta), r exp(-i delta)], [r exp(i delta), exp(i delta)]],
\* for both polarisations.
C9_MinusOnTop ==
    HasMatrices =>
        /\ Len(M_list) = Len(n_list) - 2
        /\ \A l \in 1..Len(M_list) : \A j \in 1..Len(M_list[l]) :
            LET r == VConst(r_list[l + 1][j])
                t == VConst(t_list[l + 1][j])
                D == delta[l][j]
            IN  /\ M_list[l][j].m00 = VDiv(ExpMinus(D), t)
                /\ M_list[l][j].m01 = VDiv(VMul(r, ExpMinus(D)), t)
                /\ M_list[l][j].m10 = VDiv(VMul(r, ExpPlus(D)), t)
                /\ M_list[l][j].m11 = VDiv(ExpPlus(D), t)

\* the matrices of the p polarisation are built for a film whose exp(i delta)
\* is i, so that the two rows differ
C9_Witness ==
    /\ HasMatrices /\ pol = 2 /\ pc = "propagate"
    /\ ExpPlus(delta[1][1]) = VConst(CI)
    /\ ExpMinus(delta[1][1]) = VConst(CNeg(CI))
    /\ M_list[1][1].m00 # M_list[1][1].m11

\* the product of two 2x2 matrices
Times(A, B) ==
    [m00 |-> VAdd(VMul(A.m00, B.m00), VMul(A.m01, B.m10)),
     m01 |-> VAdd(VMul(A.m00, B.m01), VMul(A.m01, B.m11)),
     m10 |-> VAdd(VMul(A.m10, B.m00), VMul(A.m11, B.m10)),
     m11 |-> VAdd(VMul(A.m10, B.m01), VMul(A.m11, B.m11))]

\* (1/t_0) [[1, r_0], [r_0, 1]] at point j
FirstInterface(j) ==
    LET r0 == VConst(r_list[1][j])
        t0 == VConst(t_list[1][j])
    IN  [m00 |-> VDiv(VOne, t0), m01 |-> VDiv(r0, t0), m10 |-> VDiv(r0, t0),
         m11 |-> VDiv(VOne, t0)]

\* M_init * M_1 * ... * M_k at point j
RECURSIVE OrderedProduct(_, _)
OrderedProduct(k, j) ==
    IF k = 0 THEN FirstInterface(j) ELSE Times(OrderedProduct(k - 1, j), M_list[k][j])

\* the loop of the current polarisation has ended and its amplitudes are stored
PolDone == (pc = "interface" /\ pol = 2) \/ (pc = "return" /\ pol = 3)

\* C10: the system matrix is M_init * M_1 * ... * M_(N-2): it starts from the
\* initial interface matrix, every interior matrix is right-multiplied once,
\* front to back; r = M[1,0]/M[0,0] and t = 1/M[0,0] are taken from the whole
\* product; for N = 2 no interior matrix is built, so r = r_0 and t = t_0,
\* which depend on no wavelength and no thickness.
C10_OrderedProduct ==
    /\ pc = "propagate" =>
        /\ i \in 0..(Len(n_list) - 2)
        /\ \A j \in 1..Len(Mtilde) : Mtilde[j] = OrderedProduct(i, j)
    /\ PolDone =>
        /\ i = Len(n_list) - 2
        /\ \A j \in 1..Len(Mtilde) :
            LET M == OrderedProduct(Len(n_list) - 2, j)
                r == IF pol = 2 THEN results.r_s[j] ELSE results.r_p[j]
                t == IF pol = 2 THEN results.t_s[j] ELSE results.t_p[j]
            IN  /\ r = VDiv(M.m10, M.m00)
                /\ t = VDiv(VOne, M.m00)
    /\ (PolDone /\ Len(n_list) = 2) =>
        /\ M_list = <<>>
        /\ \A j \in 1..Len(Mtilde) :
            LET p  == Polarisations[pol - 1]
                r0 == interface_r(p, n_list[1], n_list[2], Arcsin(Sin(th_0[j])),
                                  Arcsin(CDiv(CMul(n_list[1], Sin(th_0[j])), n_list[2])))
                t0 == interface_t(p, n_list[1], n_list[2], Arcsin(Sin(th_0[j])),
                                  Arcsin(CDiv(CMul(n_list[1], Sin(th_0[j])), n_list[2])))
            IN  /\ (IF pol = 2 THEN results.r_s[j] ELSE results.r_p[j]) = VConst(r0)
                /\ (IF pol = 2 THEN results.t_s[j] ELSE results.t_p[j]) = VConst(t0)

\* two films have been multiplied in, the second changing the matrix the
\* first left
C10_Witness ==
    /\ pc = "propagate" /\ Len(n_list) = 4 /\ i = 2
    /\ Mtilde[1] = Times(Times(FirstInterface(1), M_list[1][1]), M_list[2][1])
    /\ Mtilde[1] # Times(Times(FirstInterface(1), M_list[2][1]), M_list[1][1])
    /\ Mtilde[1] # OrderedProduct(1, 1)

\* Delta_Psi_TMM has built the thicknesses it hands to coh_tmm
Prepared == entry = "Delta_Psi_TMM" /\ pc # "Delta_Psi_TMM" /\ Len(layers_in) > 0

\* the thickness of row l as supplied, and divided by 10
AsSupplied(l) == layers_in[l][1]

TenthOf(l) == RDiv(layers_in[l][1], RInt(10))

\* kz * d for the interior rows, d the thickness as supplied
PhaseAsSupplied ==
    Arr([l \in 1..(Len(kz_list) - 2) |->
        Arr([j \in 1..Len(kz_list[l + 1]) |->
            Phase(CMul(kz_list[l + 1][j], CReal(AsSupplied(l + 1))))])])

\* kz * d for the interior rows, d a tenth of the thickness supplied
PhaseOfTenth ==
    Arr([l \in 1..(Len(kz_list) - 2) |->
        Arr([j \in 1..Len(kz_list[l + 1]) |->
            Phase(CMul(kz_list[l + 1][j], CReal(TenthOf(l + 1))))])])

\* C11 as stated: for every interior row of the stack given to Delta_Psi_TMM
\* the phase thickness is kz * d with d the thickness of the row exactly as
\* supplied (nanometres, no rescaling), and the first and last rows get
\* thickness +infinity whatever was supplied.
C11_ThicknessAsSupplied ==
    Prepared =>
        /\ Len(d_list) = Len(layers_in)
        /\ d_list[1] = RInf
        /\ d_list[Len(d_list)] = RInf
        /\ \A l \in 2..(Len(d_list) - 1) : d_list[l] = AsSupplied(l)
        /\ pc = "clip" => delta = PhaseAsSupplied
        /\ Clipped => delta = Clip(PhaseAsSupplied)

\* C11, amended: the thicknesses of the stack are in Angstrom; for every
\* interior row the phase thickness is kz * d with d the thickness supplied
\* divided by 10 (nanometres, the unit of the wavelength), and the first and
\* last rows get thickness +infinity whatever was supplied.
C11_ThicknessInAngstrom ==
    Prepared =>
        /\ Len(d_list) = Len(layers_in)
        /\ d_list[1] = RInf
        /\ d_list[Len(d_list)] = RInf
        /\ \A l \in 2..(Len(d_list) - 1) : d_list[l] = TenthOf(l)
        /\ pc = "clip" => delta = PhaseOfTenth
        /\ Clipped => delta = Clip(PhaseOfTenth)

\* a film supplied with thickness 50 is given 5 and a finite non-zero phase
\* that differs from the one of thickness 50; the backing, supplied with
\* thickness 7, is given +infinity
C11_Witness ==
    /\ Prepared /\ Clipped /\ Len(layers_in) = 3
    /\ AsSupplied(2) = RInt(50) /\ d_list[2] = RInt(5)
    /\ AsSupplied(3) = RInt(7) /\ d_list[3] = RInf
    /\ FinitePhase(delta[1][1]) /\ delta[1][1].rePi # RZero
    /\ delta # Clip(PhaseAsSupplied)

=============================================================================
